---- MODULE Spec2Model ----
(***************************************************************************)
(* log-monitor (main.go): one goroutine per monitored program tails the    *)
(* program's log, parses the "GIN" lines with awk, rewrites the request    *)
(* path to its longest configured prefix, and inserts the entries in       *)
(* batches; one more goroutine deletes old rows once a day.                *)
(*                                                                         *)
(* Strings are sequences of one-character strings, so that prefixes,       *)
(* lengths, trimming and field splitting are computed, not assumed.        *)
(***************************************************************************)
EXTENDS Integers, Sequences, FiniteSets, TLC

VARIABLES
    alive,      \* the process has not exited (log.Fatalf ends it)
    apiList,    \* main: the map LoadAPIList returned
    programs,   \* main: strings.Split(*programList, ",")
    feed,       \* the lines the tailed programs can write
    quota,      \* matching lines each tailed program writes at most
    pc,         \* monitorLogs, per program: where the goroutine is
    entries,    \* monitorLogs, per program: the batch being filled
    line,       \* monitorLogs, per program: the line read last
    lastErr,    \* monitorLogs, per program: err of the last InsertLogEntry
    added,      \* per program: entries appended so far
    flushes,    \* per program: the InsertLogEntry calls made, in order
    rows,       \* oula_logs_record: stored row -> how many copies
    sent,       \* the entries handed to db.Exec so far
    origin,     \* the entries appended so far, each with the path parsed for it
    sweepPc,    \* the cleaning goroutine: "clean" or "sleep"
    ticks,      \* iterations of the cleaning loop entered
    deleteLog,  \* the DELETE commands issued, in order: TRUE for one that failed
    mPath,      \* LongestMatch: apiPath argument
    mOrder,     \* LongestMatch: the order the map was ranged over
    mResult,    \* LongestMatch: what it returned, in a one-element sequence
    pLine,      \* ParseLogWithAWK: line argument
    pResult     \* ParseLogWithAWK: what it returned, in a one-element sequence

vars == <<alive, apiList, programs, feed, quota, pc, entries, line, lastErr,
          added, flushes, rows, sent, origin, sweepPc, ticks, deleteLog,
          mPath, mOrder, mResult, pLine, pResult>>

monitorVars == <<pc, entries, line, lastErr, added, flushes>>
sweeperVars == <<sweepPc, ticks, deleteLog>>
sinkVars    == <<rows, sent, origin>>
configVars  == <<apiList, programs, feed, quota>>
harnessVars == <<mPath, mOrder, mResult, pLine, pResult>>

---------------------------------------------------------------------------
(* Bounds *)

MaxPathLen == 3     \* longest path drawn for LongestMatch
MaxApiLen  == 2     \* longest prefix drawn for LongestMatch
MaxApis    == 2     \* most prefixes in a set drawn for LongestMatch
MaxWords   == 14    \* most words of a line drawn for ParseLogWithAWK
MaxAdded   == 250   \* matching lines of the long stream
MaxShort   == 2     \* matching lines of each short stream
MaxTicks   == 2     \* iterations of the cleaning loop

(* Program constants *)

batchSize == 100

---------------------------------------------------------------------------
(* Characters and strings *)

SP == " "
NL == "\n"
DQ == "\""
SQ == "'"
SEMI == ";"

GIN == <<"G", "I", "N">>

Whitespace == {SP, NL}

PathChars == {"/", "a"}

RECURSIVE SeqsUpTo(_, _)
SeqsUpTo(S, n) ==
    IF n = 0 THEN {<<>>}
    ELSE LET shorter == SeqsUpTo(S, n - 1)
         IN  shorter \cup {Append(s, c) : s \in {t \in shorter : Len(t) = n - 1}, c \in S}

RECURSIVE Concat(_)
Concat(ss) == IF ss = <<>> THEN <<>> ELSE Head(ss) \o Concat(Tail(ss))

\* strings.Contains(s, sub)
Contains(s, sub) ==
    \E i \in 1..(Len(s) - Len(sub) + 1) : SubSeq(s, i, i + Len(sub) - 1) = sub

HasPrefixContains(s, prefix) == Contains(s, prefix)

\* strings.HasPrefix(s, prefix)
HasPrefix(s, prefix) ==
    Len(s) >= Len(prefix) /\ SubSeq(s, 1, Len(prefix)) = prefix

\* strings.Fields(s): the maximal runs of non-whitespace characters
RECURSIVE FieldsFrom(_, _, _)
FieldsFrom(s, cur, acc) ==
    IF s = <<>> THEN (IF cur = <<>> THEN acc ELSE Append(acc, cur))
    ELSE IF Head(s) \in Whitespace
         THEN FieldsFrom(Tail(s), <<>>, IF cur = <<>> THEN acc ELSE Append(acc, cur))
         ELSE FieldsFrom(Tail(s), Append(cur, Head(s)), acc)

Fields(s) == FieldsFrom(s, <<>>, <<>>)

\* strings.Trim(s, "\""): leading and trailing double quotes removed
RECURSIVE TrimLeft(_)
TrimLeft(s) == IF s # <<>> /\ Head(s) = DQ THEN TrimLeft(Tail(s)) ELSE s

RECURSIVE TrimRight(_)
TrimRight(s) ==
    IF s # <<>> /\ s[Len(s)] = DQ THEN TrimRight(SubSeq(s, 1, Len(s) - 1)) ELSE s

TrimQuotes(s) == TrimRight(TrimLeft(s))

\* strings.Join(words, " ")
RECURSIVE JoinSp(_)
JoinSp(words) ==
    IF words = <<>> THEN <<>>
    ELSE IF Len(words) = 1 THEN Head(words)
    ELSE Head(words) \o <<SP>> \o JoinSp(Tail(words))

\* the pieces of s between the occurrences of sep
RECURSIVE SplitFrom(_, _, _, _)
SplitFrom(s, sep, cur, acc) ==
    IF s = <<>> THEN Append(acc, cur)
    ELSE IF Head(s) = sep
         THEN SplitFrom(Tail(s), sep, <<>>, Append(acc, cur))
         ELSE SplitFrom(Tail(s), sep, Append(cur, Head(s)), acc)

SplitOn(s, sep) == SplitFrom(s, sep, <<>>, <<>>)

\* the records of a text: its lines, each ended by a newline or by the end
Records(s) ==
    LET pieces == SplitOn(s, NL)
    IN  IF pieces[Len(pieces)] = <<>> THEN SubSeq(pieces, 1, Len(pieces) - 1) ELSE pieces

---------------------------------------------------------------------------
(* LogEntry and LongestMatch *)

Server == <<"s">>

LogEntry(server, program, fields, apiPath) ==
    [Server |-> server, Program |-> program,
     Date |-> fields[1], Time |-> fields[2], StatusCode |-> fields[3],
     Duration |-> fields[4], IP |-> fields[5], Method |-> fields[6],
     APIPath |-> apiPath]

\* The orders in which "for api := range apiList" can visit the map: Go leaves
\* the iteration order of a map unspecified.
Orders(S) ==
    {o \in [1..Cardinality(S) -> S] : \A i, j \in 1..Cardinality(S) : o[i] = o[j] => i = j}

LongerFirstMatch(apiPath, api, longestMatch) ==
    IF HasPrefix(apiPath, api) /\ longestMatch = <<>> THEN api ELSE longestMatch

\* one iteration of the loop of LongestMatch
Longer(apiPath, api, longestMatch) ==
    IF HasPrefix(apiPath, api) /\ Len(api) > Len(longestMatch) THEN api ELSE longestMatch

RECURSIVE LongestMatchFrom(_, _, _)
LongestMatchFrom(apiPath, order, longestMatch) ==
    IF order = <<>> THEN longestMatch
    ELSE LongestMatchFrom(apiPath, Tail(order), Longer(apiPath, Head(order), longestMatch))

\* LongestMatch(apiPath, apiList), the map ranged over in `order`
LongestMatch(apiPath, order) == LongestMatchFrom(apiPath, order, <<>>)

---------------------------------------------------------------------------
(* ParseLogWithAWK: sh -c "echo '<line>' | awk '{print $2,$4,$6,$8,$10,$12,$13}'" *)

AwkPositions == <<2, 4, 6, 8, 10, 12, 13>>

\* awk's $i: field i of the record, empty past the last field
AwkDollar(f, i) == IF i <= Len(f) THEN f[i] ELSE <<>>

\* awk's print of one record: the seven fields joined by single spaces
AwkPrint(rec) ==
    LET f == Fields(rec)
    IN  JoinSp([k \in 1..Len(AwkPositions) |-> AwkDollar(f, AwkPositions[k])]) \o <<NL>>

\* awk's output on a text: one printed line per record
Awk(text) ==
    LET recs == Records(text)
    IN  Concat([r \in 1..Len(recs) |-> AwkPrint(recs[r])])

\* The characters of the line that the shell reads outside quotes. The line
\* stands between the two quotes of echo '...', so every single quote in it
\* toggles quoting, starting from quoted.
RECURSIVE UnquotedFrom(_, _)
UnquotedFrom(s, quoted) ==
    IF s = <<>> THEN <<>>
    ELSE IF Head(s) = SQ THEN UnquotedFrom(Tail(s), ~quoted)
    ELSE IF quoted THEN UnquotedFrom(Tail(s), quoted)
    ELSE <<Head(s)>> \o UnquotedFrom(Tail(s), quoted)

Unquoted(s) == UnquotedFrom(s, TRUE)

Without(s, chars) == SelectSeq(s, LAMBDA c : c \notin chars)

QuoteCount(s) == Len(SelectSeq(s, LAMBDA c : c = SQ))

Suffixes(s) == {SubSeq(s, i, Len(s)) : i \in 1..(Len(s) + 1)}

ShOk(out) == [err |-> FALSE, out |-> out]
ShErr == [err |-> TRUE, out |-> <<>>]

ECHO == <<"e", "c", "h", "o">>

\* echo's output for the words after its name
Echo(args) == JoinSp(args) \o <<NL>>

\* The line is 'Q0' ;commands; 'Q2': two single quotes around a command list
\* that starts and ends with ";" and runs nothing but echo.
EchoList(ln) ==
    /\ QuoteCount(ln) = 2
    /\ LET u == SplitOn(ln, SQ)[2]
       IN  /\ u # <<>> /\ Head(u) = SEMI /\ u[Len(u)] = SEMI
           /\ \A i \in 1..Len(SplitOn(u, SEMI)) :
                 LET w == Fields(SplitOn(u, SEMI)[i]) IN w # <<>> => Head(w) = ECHO

\* What sh prints for an EchoList line: echo 'Q0', then each echo of the list;
\* the last command of the text, 'Q2' | awk, finds no program named Q2, so awk
\* reads nothing, prints nothing and ends the pipeline with status 0.
EchoListOutput(ln) ==
    LET parts == SplitOn(ln, SQ)
        cmds == SplitOn(parts[2], SEMI)
    IN  Echo(<<parts[1]>>)
          \o Concat([i \in 1..Len(cmds) |->
                        IF Fields(cmds[i]) = <<>> THEN <<>>
                        ELSE Echo(Tail(Fields(cmds[i])))])

\* What cmd.Output() can return for the line. A line without a single quote is
\* echoed to awk. A single quote in the line ends echo's argument, and the text
\* outside the quotes is shell text. With a ";" in it, it is a command list:
\* a list of echo commands prints their words; the output of any other list is
\* taken to be any tail of the line's words, or an error. Without a ";", an
\* odd number of quotes is a syntax error of sh, and an even number leaves
\* echo's argument as the line without its quotes. (No line drawn here holds a
\* backslash, which the echo of some shells expands.)
ShOutput(ln) ==
    IF QuoteCount(ln) = 0 THEN {ShOk(Awk(ln \o <<NL>>))}
    ELSE IF SEMI \in {Unquoted(ln)[i] : i \in 1..Len(Unquoted(ln))}
         THEN IF EchoList(ln) THEN {ShOk(EchoListOutput(ln))}
              ELSE {ShErr} \cup {ShOk(JoinSp(ws) \o <<NL>>) :
                                    ws \in Suffixes(Fields(Without(ln, {SQ, SEMI})))}
    ELSE IF QuoteCount(ln) % 2 = 1 THEN {ShErr}
    ELSE {ShOk(Awk(Without(ln, {SQ}) \o <<NL>>))}

ParseOk(entry) == [err |-> FALSE, entry |-> <<entry>>]
ParseFail == [err |-> TRUE, entry |-> <<>>]

MinFields == 7

\* ParseLogWithAWK from the output of the command on
ParseOutput(o, server, program) ==
    IF o.err THEN ParseFail
    ELSE LET fields == Fields(o.out)
         IN  IF Len(fields) >= MinFields
             THEN ParseOk(LogEntry(server, program, fields, TrimQuotes(fields[7])))
             ELSE ParseFail

\* ParseLogWithAWK(line, server, program): the results it can return
ParseLogWithAWK(ln, server, program) ==
    {ParseOutput(o, server, program) : o \in ShOutput(ln)}

---------------------------------------------------------------------------
(* The inputs *)

Paths == SeqsUpTo(PathChars, MaxPathLen)

\* LoadAPIList keeps the non-blank lines of the file
ApiLists ==
    {S \in SUBSET (SeqsUpTo(PathChars, MaxApiLen) \ {<<>>}) : Cardinality(S) <= MaxApis}

Word(i) == <<ToString(i)>>

QuotedPath(path) == <<DQ>> \o path \o <<DQ>>

\* A log line of n words, the first one [GIN] when `marker`, the 13th the
\* quoted request path.
LogLine(marker, n, path) ==
    JoinSp([i \in 1..n |->
              IF i = 1 THEN (IF marker THEN <<"[">> \o GIN \o <<"]">> ELSE Word(1))
              ELSE IF i = 13 THEN QuotedPath(path)
              ELSE Word(i)]) \o <<NL>>

\* [GIN] it's 3 4 ... 12 "/a": one single quote
OddQuoteLine ==
    JoinSp(<< <<"[">> \o GIN \o <<"]">>, <<"i", "t", SQ, "s">> >>
           \o [i \in 1..10 |-> Word(i + 2)] \o << QuotedPath(<<"/", "a">>) >>) \o <<NL>>

\* [GIN] 2 '3' 4 ... 12 "/a": a word in single quotes
EvenQuoteLine ==
    JoinSp(<< <<"[">> \o GIN \o <<"]">>, Word(2), <<SQ, "3", SQ>> >>
           \o [i \in 1..9 |-> Word(i + 3)] \o << QuotedPath(<<"/", "a">>) >>) \o <<NL>>

\* ';echo GIN 2 3 4 5 6 /a;': eight words, the quotes around a command
InjectionLine ==
    JoinSp(<< <<SQ, SEMI, "e", "c", "h", "o">>, GIN >>
           \o [i \in 1..5 |-> Word(i + 1)] \o << <<"/", "a", SEMI, SQ>> >>) \o <<NL>>

\* the lines drawn for ParseLogWithAWK
Lines ==
    {LogLine(m, n, p) : m \in BOOLEAN, n \in 0..MaxWords, p \in Paths}
        \cup {OddQuoteLine, EvenQuoteLine, InjectionLine}


---------------------------------------------------------------------------
(* The functions on their own: LongestMatch and ParseLogWithAWK applied to  *)
(* drawn arguments.                                                        *)

NoProcess ==
    /\ alive = TRUE
    /\ programs = {}
    /\ feed = {}
    /\ quota = 0
    /\ pc = <<>> /\ entries = <<>> /\ line = <<>> /\ lastErr = <<>>
    /\ added = <<>> /\ flushes = <<>>
    /\ rows = <<>> /\ sent = {} /\ origin = {}
    /\ sweepPc = "clean" /\ ticks = 1 /\ deleteLog = <<>>

InitMatch ==
    /\ NoProcess
    /\ apiList \in ApiLists
    /\ mPath \in Paths
    /\ mOrder = <<>> /\ mResult = <<>>
    /\ pLine = <<>> /\ pResult = <<>>

MatchApply ==
    /\ mResult = <<>>
    /\ \E order \in Orders(apiList) :
          /\ mOrder' = order
          /\ mResult' = <<LongestMatch(mPath, order)>>
    /\ UNCHANGED <<alive, configVars, monitorVars, sweeperVars, sinkVars,
                   mPath, pLine, pResult>>

SpecMatch == InitMatch /\ [][MatchApply]_vars

InitParse ==
    /\ NoProcess
    /\ apiList = {}
    /\ mPath = <<>> /\ mOrder = <<>> /\ mResult = <<>>
    /\ pLine \in Lines
    /\ pResult = <<>>

ParseApply ==
    /\ pResult = <<>>
    /\ \E r \in ParseLogWithAWK(pLine, Server, "p1") : pResult' = <<r>>
    /\ UNCHANGED <<alive, configVars, monitorVars, sweeperVars, sinkVars,
                   mPath, mOrder, mResult, pLine>>

SpecParse == InitParse /\ [][ParseApply]_vars


---------------------------------------------------------------------------
(* The process: monitorLogs per program, the cleaning loop, the database   *)

Programs == {"p1", "p2"}

FeedPaths == {<<>>, <<"/">>, <<"/", "a">>, <<"/", "a", "a">>, <<"a">>}

\* the lines the tailed programs write in the runs over varied lines
FeedLines ==
    {LogLine(TRUE, 13, p) : p \in FeedPaths}
        \cup {LogLine(TRUE, 12, <<>>), LogLine(TRUE, 14, <<"/", "a">>),
              LogLine(FALSE, 13, <<"/", "a">>),
              OddQuoteLine, EvenQuoteLine, InjectionLine}

\* the API lists loaded in the runs of the process
MonitorApiLists ==
    {{}, {<<"/">>}, {<<"/", "a">>}, {<<"/">>, <<"/", "a">>},
     {<<"/", "a">>, <<"/", "a", "a">>}, {<<"a">>}}

\* ParseLogWithAWK on every line a run can read, computed once
Parsed ==
    [ln \in FeedLines \cup Lines, p \in Programs |-> ParseLogWithAWK(ln, Server, p)]

\* strings.Contains(line, "GIN") on every line a run can read, computed once
HasMarker == [ln \in FeedLines \cup Lines |-> Contains(ln, GIN)]

(* The table oula_logs_record, a bag of rows *)

\* the table after one INSERT for each entry of es
AddRows(b, es) ==
    [e \in DOMAIN b \cup {es[i] : i \in 1..Len(es)} |->
        (IF e \in DOMAIN b THEN b[e] ELSE 0) + Cardinality({i \in 1..Len(es) : es[i] = e})]

\* DELETE FROM oula_logs_record WHERE date < NOW() - INTERVAL 8 DAY, the dates
\* in `old` being the ones more than 8 days back
DeleteOld(b, old) == [e \in {x \in DOMAIN b : x.Date \notin old} |-> b[e]]

\* How many db.Exec calls of one InsertLogEntry succeed before one fails, n
\* meaning that none fails: the first fails, the second fails, or none does.
ExecOutcomes(n) == {k \in 0..n : k \in {0, 1, n}}

\* InsertLogEntry(db, es) when k Exec calls succeed: the rows are inserted one
\* Exec at a time, and the first error is returned at once.
InsertLogEntry(es, k) ==
    [stored |-> k, err |-> k < Len(es),
     handed |-> IF k < Len(es) THEN k + 1 ELSE k]

ThresholdExceeded(es) == Len(es) > batchSize

\* len(entries) >= batchSize
ThresholdReached(es) == Len(es) >= batchSize

MatchedAlways(matched) == TRUE

\* matchedAPIPath != ""
Matched(matched) == matched # <<>>

KeepRawPath(entry, matched) == entry

\* entry.APIPath = matchedAPIPath
Rewrite(entry, matched) == [entry EXCEPT !.APIPath = matched]

KeepOnError(es, err) == IF err THEN es ELSE <<>>

\* entries = []*LogEntry{} after the call of InsertLogEntry at the threshold
AfterFlush(es, err) == <<>>

\* One call of InsertLogEntry by the monitor of p on the batch es
Flush(p, es, trigger, k) ==
    LET r == InsertLogEntry(es, k)
    IN  /\ rows' = AddRows(rows, SubSeq(es, 1, r.stored))
        /\ sent' = sent \cup {es[i] : i \in 1..r.handed}
        /\ lastErr' = [lastErr EXCEPT ![p] = r.err]
        /\ flushes' = [flushes EXCEPT
                         ![p] = Append(@, [size |-> Len(es), trigger |-> trigger,
                                           stored |-> r.stored, err |-> r.err])]

\* The entry was matched: append it, and insert the batch at the threshold
AddEntry(p, raw, entry) ==
    LET es == Append(entries[p], entry)
    IN  /\ added' = [added EXCEPT ![p] = @ + 1]
        /\ origin' = origin \cup {[raw |-> raw, entry |-> entry]}
        /\ IF ThresholdReached(es)
           THEN \E k \in ExecOutcomes(Len(es)) :
                   /\ Flush(p, es, "threshold", k)
                   /\ entries' = [entries EXCEPT
                                    ![p] = AfterFlush(es, InsertLogEntry(es, k).err)]
           ELSE /\ entries' = [entries EXCEPT ![p] = es]
                /\ UNCHANGED <<rows, sent, lastErr, flushes>>

Skip == UNCHANGED <<entries, added, rows, sent, origin, lastErr, flushes>>

\* the body of the loop of monitorLogs for the line ln
HandleLine(p, ln) ==
    /\ line' = [line EXCEPT ![p] = ln]
    /\ IF ~HasMarker[ln] THEN Skip
       ELSE \E r \in Parsed[ln, p] :
               IF r.err THEN Skip
               ELSE \E order \in Orders(apiList) :
                       LET entry == r.entry[1]
                           matchedAPIPath == LongestMatch(entry.APIPath, order)
                       IN  IF Matched(matchedAPIPath)
                           THEN AddEntry(p, entry.APIPath, Rewrite(entry, matchedAPIPath))
                           ELSE Skip

\* cmd.StdoutPipe() and cmd.Start() succeed
Start(p) ==
    /\ alive /\ p \in programs /\ pc[p] = "Starting"
    /\ pc' = [pc EXCEPT ![p] = "Running"]
    /\ UNCHANGED <<alive, configVars, entries, line, lastErr, added, flushes,
                   sinkVars, sweeperVars, harnessVars>>

\* cmd.StdoutPipe() or cmd.Start() fails: log.Fatalf
StartFail(p) ==
    /\ alive /\ p \in programs /\ pc[p] = "Starting"
    /\ pc' = [pc EXCEPT ![p] = "Fatal"]
    /\ alive' = FALSE
    /\ UNCHANGED <<configVars, entries, line, lastErr, added, flushes,
                   sinkVars, sweeperVars, harnessVars>>

\* reader.ReadString returns a line
ReadLine(p) ==
    /\ alive /\ p \in programs /\ pc[p] = "Running"
    /\ added[p] < quota
    /\ \E ln \in feed : HandleLine(p, ln)
    /\ UNCHANGED <<alive, configVars, pc, sweeperVars, harnessVars>>

\* reader.ReadString returns io.EOF: leave the loop, insert what remains
ReadEOF(p) ==
    /\ alive /\ p \in programs /\ pc[p] = "Running"
    /\ pc' = [pc EXCEPT ![p] = "Terminated"]
    /\ IF Len(entries[p]) > 0
       THEN \E k \in ExecOutcomes(Len(entries[p])) : Flush(p, entries[p], "eof", k)
       ELSE UNCHANGED <<rows, sent, lastErr, flushes>>
    /\ UNCHANGED <<alive, configVars, entries, line, added, origin, sweeperVars,
                   harnessVars>>

FatalfReturns == TRUE

\* log.Fatalf ends the process
Fatalf == FALSE

\* reader.ReadString returns another error: log.Fatalf
ReadErr(p) ==
    /\ alive /\ p \in programs /\ pc[p] = "Running"
    /\ pc' = [pc EXCEPT ![p] = "Fatal"]
    /\ alive' = Fatalf
    /\ UNCHANGED <<configVars, entries, line, lastErr, added, flushes,
                   sinkVars, sweeperVars, harnessVars>>

StopOnError(ok) == IF ok THEN "sleep" ELSE "stopped"

\* after CleanOldLogs returns, whatever db.Exec returned: time.Sleep
AfterClean(ok) == "sleep"

\* CleanOldLogs(db): one DELETE, its error logged
SweepClean ==
    /\ alive /\ sweepPc = "clean"
    /\ \E ok \in BOOLEAN :
          /\ deleteLog' = Append(deleteLog, ~ok)
          /\ sweepPc' = AfterClean(ok)
          /\ IF ok
             THEN \E old \in SUBSET {e.Date : e \in DOMAIN rows} :
                     rows' = DeleteOld(rows, old)
             ELSE rows' = rows
    /\ UNCHANGED <<alive, configVars, monitorVars, sent, origin, ticks, harnessVars>>

\* time.Sleep(24 * time.Hour) returns: the next iteration
SweepWake ==
    /\ alive /\ sweepPc = "sleep"
    /\ ticks < MaxTicks
    /\ ticks' = ticks + 1
    /\ sweepPc' = "clean"
    /\ UNCHANGED <<alive, configVars, monitorVars, sinkVars, deleteLog, harnessVars>>

Next ==
    \/ \E p \in Programs : Start(p)
    \/ \E p \in Programs : StartFail(p)
    \/ \E p \in Programs : ReadLine(p)
    \/ \E p \in Programs : ReadEOF(p)
    \/ \E p \in Programs : ReadErr(p)
    \/ SweepClean
    \/ SweepWake

\* main, after the API list is loaded, the database opened and the goroutines
\* started, for the programs progs
InitProcess(progs) ==
    /\ alive = TRUE
    /\ programs = progs
    /\ pc = [p \in progs |-> "Starting"]
    /\ entries = [p \in progs |-> <<>>]
    /\ line = [p \in progs |-> <<>>]
    /\ lastErr = [p \in progs |-> FALSE]
    /\ added = [p \in progs |-> 0]
    /\ flushes = [p \in progs |-> <<>>]
    /\ rows = <<>>
    /\ sent = {}
    /\ origin = {}
    /\ sweepPc = "clean" /\ ticks = 1 /\ deleteLog = <<>>
    /\ mPath = <<>> /\ mOrder = <<>> /\ mResult = <<>>
    /\ pLine = <<>> /\ pResult = <<>>

\* two programs, short streams
Init ==
    /\ InitProcess(Programs)
    /\ apiList \in {{<<"/", "a">>}, {<<"/">>, <<"/", "a">>}}
    /\ feed = {LogLine(TRUE, 13, <<"/", "a", "a">>), LogLine(TRUE, 13, <<"/">>),
               LogLine(TRUE, 12, <<>>)}
    /\ quota = MaxShort

Spec == Init /\ [][Next]_vars

\* one program, short streams
InitSweep ==
    /\ InitProcess({"p1"})
    /\ apiList = {<<"/", "a">>}
    /\ feed = {LogLine(TRUE, 13, <<"/", "a", "a">>), LogLine(TRUE, 12, <<>>)}
    /\ quota = MaxShort

\* the scheduler runs every goroutine that can run, db.Exec and time.Sleep
\* return
FairSpec == InitSweep /\ [][Next]_vars /\ WF_vars(SweepClean) /\ WF_vars(SweepWake)

\* one program, short streams over varied lines and API lists
InitLines ==
    /\ InitProcess({"p1"})
    /\ apiList \in MonitorApiLists
    /\ feed = FeedLines
    /\ quota = MaxShort

SpecLines == InitLines /\ [][Next]_vars

\* one program writing up to MaxAdded matching lines
InitBatch ==
    /\ InitProcess({"p1"})
    /\ apiList = {<<"/", "a">>}
    /\ feed = {LogLine(TRUE, 13, <<"/", "a", "a">>), LogLine(FALSE, 13, <<"/", "a">>)}
    /\ quota = MaxAdded

SpecBatch == InitBatch /\ [][Next]_vars


---------------------------------------------------------------------------
(* The claims *)

\* a is a prefix of s, character by character
IsPrefixOf(a, s) == Len(a) <= Len(s) /\ \A i \in 1..Len(a) : a[i] = s[i]

\* m is a prefix of path in S, and no prefix of path in S is longer
IsLongestPrefixIn(m, path, S) ==
    /\ m \in S
    /\ IsPrefixOf(m, path)
    /\ \A a \in S : IsPrefixOf(a, path) => Len(a) <= Len(m)

\* C1: LongestMatch(P, S) returns an element of S that is a prefix of P and that
\* no prefix of P in S exceeds in length; it returns the empty string when S is
\* empty or holds no prefix of P.
C1_LongestMatchContract ==
    mResult # <<>> =>
        IF \E a \in apiList : IsPrefixOf(a, mPath)
        THEN IsLongestPrefixIn(mResult[1], mPath, apiList)
        ELSE mResult[1] = <<>>

\* two prefixes of the path are in the set, visited the longer one first
C1_Witness ==
    /\ mResult # <<>>
    /\ Len(mOrder) = 2
    /\ IsPrefixOf(mOrder[1], mPath) /\ IsPrefixOf(mOrder[2], mPath)
    /\ Len(mOrder[1]) > Len(mOrder[2])
    /\ mResult[1] = mOrder[1]

\* C10: the result of LongestMatch is the same for every order in which the set
\* is ranged over, two distinct prefixes of P in S never being equally long.
C10_OrderIndependent ==
    mResult # <<>> =>
        /\ \A o \in Orders(apiList) : LongestMatch(mPath, o) = mResult[1]
        /\ \A a, b \in apiList :
              (a # b /\ HasPrefix(mPath, a) /\ HasPrefix(mPath, b)) => Len(a) # Len(b)

\* two prefixes of the path are in the set, visited the shorter one first
C10_Witness ==
    /\ mResult # <<>>
    /\ Len(mOrder) = 2
    /\ IsPrefixOf(mOrder[1], mPath) /\ IsPrefixOf(mOrder[2], mPath)
    /\ Len(mOrder[1]) < Len(mOrder[2])
    /\ mResult[1] = mOrder[2]

\* C8: a line of fewer than 13 words is a parse failure, and an entry has its
\* seven fields from the words 2, 4, 6, 8, 10, 12 and 13 of the line.
C8_ParseContract ==
    pResult # <<>> =>
        LET words == Fields(pLine)
            r == pResult[1]
        IN  /\ Len(words) < 13 => r.err
            /\ ~r.err =>
                  /\ Len(words) >= 13
                  /\ r.entry[1].Date = words[2]
                  /\ r.entry[1].Time = words[4]
                  /\ r.entry[1].StatusCode = words[6]
                  /\ r.entry[1].Duration = words[8]
                  /\ r.entry[1].IP = words[10]
                  /\ r.entry[1].Method = words[12]
                  /\ r.entry[1].APIPath = TrimQuotes(words[13])


CeilDiv(n, t) == (n + t - 1) \div t

RECURSIVE SumSizes(_)
SumSizes(f) == IF f = <<>> THEN 0 ELSE Head(f).size + SumSizes(Tail(f))

\* C2: a monitor that appended N entries and then read end-of-stream has made
\* ceil(N / batchSize) calls of InsertLogEntry, none with more than batchSize
\* entries, N entries in all: N div batchSize calls at the threshold, of
\* batchSize entries each, and one more at end-of-stream, of N mod batchSize
\* entries, exactly when that is not zero.
C2_FlushCalls ==
    \A p \in programs :
        pc[p] = "Terminated" =>
            LET N == added[p]
                f == flushes[p]
                full == N \div batchSize
                rest == N % batchSize
            IN  /\ Len(f) = CeilDiv(N, batchSize)
                /\ \A i \in 1..Len(f) : f[i].size <= batchSize
                /\ SumSizes(f) = N
                /\ \A i \in 1..Len(f) :
                      i <= full => f[i].trigger = "threshold" /\ f[i].size = batchSize
                /\ rest = 0 => Len(f) = full
                /\ rest > 0 => /\ Len(f) = full + 1
                               /\ f[Len(f)].trigger = "eof"
                               /\ f[Len(f)].size = rest

\* 250 entries, three calls: 100 and 100 at the threshold, 50 at end-of-stream
C2_Witness ==
    /\ pc["p1"] = "Terminated"
    /\ added["p1"] = 250
    /\ [i \in 1..Len(flushes["p1"]) |-> flushes["p1"][i].size] = <<100, 100, 50>>
    /\ flushes["p1"][3].trigger = "eof"

\* the step is a call of InsertLogEntry at the threshold that returned an error
ThresholdFlushFailed(p) ==
    /\ Len(flushes'[p]) = Len(flushes[p]) + 1
    /\ flushes'[p][Len(flushes'[p])].trigger = "threshold"
    /\ flushes'[p][Len(flushes'[p])].err

\* C4 as stated: after an insert at the threshold fails, the monitor has the
\* error, its buffer still holds the batch, and it goes on reading.
C4_BatchKeptOnFailure ==
    [][\A p \in programs :
          ThresholdFlushFailed(p) =>
              /\ lastErr'[p]
              /\ Len(entries'[p]) = flushes'[p][Len(flushes'[p])].size
              /\ pc'[p] = "Running" /\ alive']_vars

\* C4 amended: after an insert at the threshold fails, the monitor has the
\* error, its buffer is empty all the same, and it goes on reading.
C4_BatchDroppedOnFailure ==
    [][\A p \in programs :
          ThresholdFlushFailed(p) =>
              /\ lastErr'[p]
              /\ entries'[p] = <<>>
              /\ pc'[p] = "Running" /\ alive']_vars

\* the first insert at the threshold failed, and the next line was appended to
\* an empty buffer
C4_Witness ==
    /\ Len(flushes["p1"]) = 1
    /\ flushes["p1"][1].trigger = "threshold" /\ flushes["p1"][1].err
    /\ added["p1"] = batchSize + 1
    /\ Len(entries["p1"]) = 1
    /\ pc["p1"] = "Running"

\* C5: a call of InsertLogEntry stores the whole batch or nothing of it: all
\* rows when it returns no error, none when it returns one.
C5_FlushAtomic ==
    \A p \in programs :
        \A i \in 1..Len(flushes[p]) :
            /\ ~flushes[p][i].err => flushes[p][i].stored = flushes[p][i].size
            /\ flushes[p][i].err => flushes[p][i].stored = 0

\* C3: every entry handed to db.Exec has an APIPath of the API list, the longest
\* prefix in the list of the path parsed from its line; an entry whose parsed
\* path has no prefix in the list is never handed over.
C3_SentPathsMatched ==
    \A e \in sent :
        /\ e.APIPath \in apiList
        /\ \E o \in origin :
              /\ o.entry = e
              /\ IsLongestPrefixIn(e.APIPath, o.raw, apiList)

\* an entry was handed over whose parsed path had two prefixes in the list and
\* was rewritten to the longer one
C3_Witness ==
    \E e \in sent :
        \E o \in origin :
            /\ o.entry = e
            /\ o.raw # e.APIPath
            /\ \E a \in apiList : a # e.APIPath /\ IsPrefixOf(a, o.raw)

\* the line is skipped whatever ParseLogWithAWK returns for it: it has no
\* marker, or its parse fails, or the path parsed has no prefix in the list
Skipped(p, ln) ==
    \/ ~HasMarker[ln]
    \/ \A r \in Parsed[ln, p] :
          r.err \/ ~(\E a \in apiList : IsPrefixOf(a, r.entry[1].APIPath))

\* C9: reading a line that is skipped leaves the batch as it was, makes no call
\* of InsertLogEntry, and leaves the monitor running. (A step that changes
\* line[p] is the monitor of p reading a line; one that leaves it may be the
\* same line read again.)
C9_SkipLeavesBatch ==
    [][\A p \in programs :
          /\ (line'[p] # line[p] /\ Skipped(p, line'[p])) =>
                /\ entries'[p] = entries[p]
                /\ flushes' = flushes /\ sent' = sent /\ rows' = rows
                /\ added' = added
                /\ pc[p] = "Running" /\ pc'[p] = "Running" /\ alive'
          /\ (line'[p] # <<>> /\ Skipped(p, line'[p]) /\ pc'[p] = "Running") =>
                /\ entries'[p] = entries[p]
                /\ flushes'[p] = flushes[p]
                /\ added'[p] = added[p]]_vars

\* with an entry in the batch, the line read last had the marker and was
\* parsed, and its path had no prefix in the list
C9_Witness ==
    /\ pc["p1"] = "Running"
    /\ entries["p1"] # <<>>
    /\ line["p1"] # <<>>
    /\ HasMarker[line["p1"]]
    /\ \A r \in Parsed[line["p1"], "p1"] :
          ~r.err /\ ~(\E a \in apiList : IsPrefixOf(a, r.entry[1].APIPath))


\* C7: a read error other than end-of-stream ends the process at once: the
\* monitor inserts nothing of its batch, and nothing moves once the process has
\* ended; end-of-stream ends only the monitor that read it, after the insert of
\* what remained in its batch, and leaves the other goroutines where they were.
C7_FatalEndsProcess ==
    [][/\ alive
       /\ \A p \in programs :
             /\ (pc[p] = "Running" /\ pc'[p] = "Fatal") =>
                   /\ ~alive'
                   /\ entries' = entries /\ flushes' = flushes
                   /\ sent' = sent /\ rows' = rows
             /\ (pc[p] = "Running" /\ pc'[p] = "Terminated") =>
                   /\ alive'
                   /\ \A q \in programs \ {p} :
                         pc'[q] = pc[q] /\ entries'[q] = entries[q]
                   /\ sweepPc' = sweepPc
                   /\ IF entries[p] = <<>> THEN flushes'[p] = flushes[p]
                      ELSE /\ Len(flushes'[p]) = Len(flushes[p]) + 1
                           /\ flushes'[p][Len(flushes'[p])].size = Len(entries[p])
                           /\ flushes'[p][Len(flushes'[p])].trigger = "eof"]_vars

\* p1 ended at end-of-stream after inserting its batch; p2 went on, and ended
\* the process on a read error with an entry in its batch, never inserted
C7_Witness ==
    /\ pc["p1"] = "Terminated" /\ flushes["p1"] # <<>>
    /\ pc["p2"] = "Fatal" /\ entries["p2"] # <<>> /\ flushes["p2"] = <<>>
    /\ ~alive

\* C6: the cleaning loop issues one DELETE per iteration, whether or not the
\* DELETEs before it failed, and while the process lives every DELETE is
\* followed by the next iteration's.
C6_DeleteEveryTick ==
    /\ [](Len(deleteLog) = IF sweepPc = "clean" THEN ticks - 1 ELSE ticks)
    /\ \A n \in 0..(MaxTicks - 1) :
          (Len(deleteLog) = n) ~> (Len(deleteLog) = n + 1 \/ ~alive)

\* the first DELETE failed and the second was issued
C6_Witness ==
    /\ Len(deleteLog) = 2
    /\ deleteLog[1]
    /\ alive


====
